---- MODULE Spec2Model ----
(***************************************************************************)
(* PUFferfish: modelling attacks on a simulated XOR Arbiter PUF behind a   *)
(* challenge transform.                                                    *)
(*                                                                         *)
(*   CRPTransform.py   the challenge transforms (pure functions)           *)
(*   attacker.py       class Attacker: fit_attack, attack_similarity,      *)
(*                     attack_accuracy, transform_entropy                  *)
(*   metrics/common.py similarity_data, accuracy, similarity               *)
(*   __main__.py       main: the sweep over the transforms and CRPNUMS     *)
(*                                                                         *)
(* Four specifications share the variables below:                          *)
(*   SpecT     one call of a transform on bounded inputs                   *)
(*   Spec      an Attacker under arbitrary sequences of its methods        *)
(*   SpecM     one call of similarity_data / accuracy / similarity         *)
(*   SpecMain  the control flow of main                                    *)
(*                                                                         *)
(* Python values are held in records of one shape so that any two of them  *)
(* can be compared: a key is [kind, limbs, bits] (None, an int held as     *)
(* base-2^16 limbs most significant first, or a list), the outcome of a    *)
(* call is [raised, ...] with raised = "" when the call returned.          *)
(***************************************************************************)
EXTENDS Integers, Sequences, FiniteSets, TLC

VARIABLES
    tcall,      \* SpecT: the transform call [transform, challenges, key]
    tres,       \* SpecT: its outcome [done, raised, challenges, key]
    transform,  \* Attacker.transform (the name of the function)
    key,        \* Attacker.key
    N,          \* Attacker.N
    model,      \* Attacker.model
    prng,       \* which generator random_inputs draws from
    last,       \* Attacker: the last method call and what it did
    everFit,    \* Attacker history: some fit_attack has completed
    mcall,      \* SpecM: the metric call and its arguments
    mres,       \* SpecM: its outcome
    pc,         \* main: the statement main is at
    idx,        \* main: the position of N in CRPNUMS in the current loop
    accs,       \* main: the four accuracy lists, by transform
    attackers,  \* main: the four attacker variables, by transform
    trace       \* main: the calls made so far, in order

vars == <<tcall, tres, transform, key, N, model, prng, last, everFit,
          mcall, mres, pc, idx, accs, attackers, trace>>

tvars == <<tcall, tres>>
avars == <<transform, key, N, model, prng, last, everFit>>
mvars == <<mcall, mres>>
mainvars == <<pc, idx, accs, attackers, trace>>

-----------------------------------------------------------------------------
(* Bounds of the model.                                                    *)

\* XorKeyTransform / DoubleXorTransform calls: row length and row count
MaxLen == 4
MaxRows == 2
\* TFFWithResetTransform / NoTransform calls: row length and row count
MaxTffLen == 2
MaxTffRows == 3
\* Attacker: the number N of challenge/response pairs, the generators tried
MaxN == 3
MaxPrng == 2
\* metrics: rows, response bits and repetitions of a response array, and
\* the challenge length of a simulation
MaxRespRows == 2
MaxRespBits == 2
MaxReps == 2
MaxSimLen == 2

-----------------------------------------------------------------------------
(* Python values.                                                          *)

LimbWidth == 16

NoneKey == [kind |-> "None", limbs |-> <<>>, bits |-> <<>>]
IntKey(limbs) == [kind |-> "int", limbs |-> limbs, bits |-> <<>>]
ListKey(bits) == [kind |-> "list", limbs |-> <<>>, bits |-> bits]

Pow2(e) == IF e = 0 THEN 1 ELSE 2 ^ e

\* all rows of length n over {-1, 1}
Rows(n) == [1..n -> {-1, 1}]

RECURSIVE BitsOf(_, _)
\* the w low-order binary digits of k, most significant first
BitsOf(k, w) ==
    IF w = 0 THEN <<>> ELSE Append(BitsOf(k \div 2, w - 1), k % 2)

RECURSIVE LimbBits(_)
LimbBits(limbs) ==
    IF limbs = <<>> THEN <<>>
    ELSE BitsOf(Head(limbs), LimbWidth) \o LimbBits(Tail(limbs))

RECURSIVE StripZeros(_)
StripZeros(s) ==
    IF Len(s) > 1 /\ Head(s) = 0 THEN StripZeros(Tail(s)) ELSE s

\* bin(key)[2:]: the binary digits of an int, no leading zeros, "0" for 0
bin(k) == StripZeros(LimbBits(k.limbs))

\* [-1 if bit == '0' else 1 for bit in bin(key)[2:]]
arrayed_key(k) ==
    LET b == bin(k) IN [i \in 1..Len(b) |-> IF b[i] = 0 THEN -1 ELSE 1]

Returned(challenges, k) ==
    [done |-> TRUE, raised |-> "", challenges |-> challenges, key |-> k]
Raised(exc) ==
    [done |-> TRUE, raised |-> exc, challenges |-> <<>>, key |-> NoneKey]
NotCalled ==
    [done |-> FALSE, raised |-> "", challenges |-> <<>>, key |-> NoneKey]

-----------------------------------------------------------------------------
(* CRPTransform.py                                                         *)

NoTransform(challenges, k) == Returned(challenges, k)

\* array([[1 if challenge[i] != k[i] else -1 for i in range(len(k))]
\*        for challenge in challenges])
XorRows(challenges, k) ==
    [j \in 1..Len(challenges) |->
        [i \in 1..Len(k) |-> IF challenges[j][i] # k[i] THEN 1 ELSE -1]]

\* challenge[i] with i >= len(challenge) for some challenge
XorIndexError(challenges, k) ==
    \E j \in 1..Len(challenges) : Len(k) > Len(challenges[j])

\* XorKeyTransform handing back a key it has advanced
XorKeyTransform_KeyAdvances(challenges, k) ==
    IF k.kind # "int" THEN Raised("TypeError")
    ELSE LET ak == arrayed_key(k) IN
         IF XorIndexError(challenges, ak) THEN Raised("IndexError")
         ELSE Returned(XorRows(challenges, ak),
                       IntKey(Tail(k.limbs) \o <<Head(k.limbs)>>))

XorKeyTransform(challenges, k) ==
    IF k.kind # "int" THEN Raised("TypeError")
    ELSE LET ak == arrayed_key(k) IN
         IF XorIndexError(challenges, ak) THEN Raised("IndexError")
         ELSE Returned(XorRows(challenges, ak), k)

\* DoubleXorTransform folding the upper half of the key in twice
DoubleXorTransform_SameHalf(challenges, k) ==
    IF k.kind # "int" THEN Raised("TypeError")
    ELSE LET ak == arrayed_key(k)
             h == Len(ak) \div 2
             first == SubSeq(ak, 1, h) \o SubSeq(ak, 1, h)
             second == SubSeq(ak, h + 1, Len(ak)) \o SubSeq(ak, h + 1, Len(ak))
         IN
         IF Len(first) # Len(second) THEN Raised("AssertionError")
         ELSE IF challenges = <<>> THEN Raised("IndexError")
         ELSE IF Len(second) # Len(challenges[1]) THEN Raised("AssertionError")
         ELSE Returned(XorRows(XorRows(challenges, first), first), k)

DoubleXorTransform(challenges, k) ==
    IF k.kind # "int" THEN Raised("TypeError")
    ELSE LET ak == arrayed_key(k)
             h == Len(ak) \div 2
             first == SubSeq(ak, 1, h) \o SubSeq(ak, 1, h)
             second == SubSeq(ak, h + 1, Len(ak)) \o SubSeq(ak, h + 1, Len(ak))
         IN
         IF Len(first) # Len(second) THEN Raised("AssertionError")
         ELSE IF challenges = <<>> THEN Raised("IndexError")
         ELSE IF Len(second) # Len(challenges[1]) THEN Raised("AssertionError")
         ELSE Returned(XorRows(XorRows(challenges, first), second), k)

flip_bit(bit) == IF bit = 1 THEN -1 ELSE 1

\* [bit if challenge[i] == -1 else _flip_bit(bit) for i, bit in enumerate(key)]
TffStep(challenge, bits) ==
    [i \in 1..Len(bits) |->
        IF challenge[i] = -1 THEN bits[i] ELSE flip_bit(bits[i])]

RECURSIVE TffLoop_AppendAfter(_, _, _)
\* TffLoop appending the key after it consumed the challenge
TffLoop_AppendAfter(challenges, bits, new_challenges) ==
    IF challenges = <<>> THEN Returned(new_challenges, ListKey(bits))
    ELSE IF Len(bits) > Len(Head(challenges)) THEN Raised("IndexError")
    ELSE TffLoop_AppendAfter(Tail(challenges), TffStep(Head(challenges), bits),
                 Append(new_challenges, TffStep(Head(challenges), bits)))

RECURSIVE TffLoop(_, _, _)
TffLoop(challenges, bits, new_challenges) ==
    IF challenges = <<>> THEN Returned(new_challenges, ListKey(bits))
    ELSE IF Len(bits) > Len(Head(challenges)) THEN Raised("IndexError")
    ELSE TffLoop(Tail(challenges), TffStep(Head(challenges), bits),
                 Append(new_challenges, bits))

TFFWithResetTransform(challenges, k) ==
    IF k.kind # "list" THEN
        IF challenges = <<>> THEN Returned(<<>>, k) ELSE Raised("TypeError")
    ELSE TffLoop(challenges, k.bits, <<>>)

ElipticCurveTransform(challenges, k) == Raised("NotImplementedError")

\* self.transform(challenges, self.key)
Apply(t, challenges, k) ==
    CASE t = "NoTransform" -> NoTransform(challenges, k)
      [] t = "XorKeyTransform" -> XorKeyTransform(challenges, k)
      [] t = "DoubleXorTransform" -> DoubleXorTransform(challenges, k)
      [] t = "TFFWithResetTransform" -> TFFWithResetTransform(challenges, k)
      [] OTHER -> ElipticCurveTransform(challenges, k)

-----------------------------------------------------------------------------
(* SpecT: one call of a transform.                                         *)

IntKeys(n) == {IntKey(<<v>>) : v \in 0..Pow2(n)}
ListKeys(n) == {ListKey(b) : b \in UNION {[1..l -> {-1, 0, 1}] : l \in 1..n}}

TCall(t, c, k) == [transform |-> t, challenges |-> c, key |-> k]

\* the calls of the two transforms that take an int key
XorCalls ==
    \E n \in 1..MaxLen, r \in 0..MaxRows :
        \E c \in [1..r -> Rows(n)], k \in IntKeys(n),
           t \in {"XorKeyTransform", "DoubleXorTransform"} :
            tcall = TCall(t, c, k)

\* the calls of the transform that takes a list, and of those that ignore the key
TffCalls ==
    \E n \in 1..MaxTffLen, r \in 0..MaxTffRows :
        \E c \in [1..r -> Rows(n)] :
            \/ \E k \in ListKeys(MaxTffLen) :
                    tcall = TCall("TFFWithResetTransform", c, k)
            \/ \E t \in {"NoTransform", "ElipticCurveTransform"} :
                    tcall = TCall(t, c, NoneKey)

\* the variables of the other specifications, which a specification leaves
\* at rest
IdleA ==
    /\ transform = "None" /\ key = NoneKey /\ N = 0
    /\ model = "None" /\ prng = 0 /\ last = "None" /\ everFit = FALSE
IdleM == mcall = "None" /\ mres = "None"
IdleMain ==
    /\ pc = "None" /\ idx = 0 /\ accs = <<>> /\ attackers = <<>> /\ trace = <<>>
IdleT == tcall = "None" /\ tres = "None"

InitT ==
    /\ (XorCalls \/ TffCalls)
    /\ tres = NotCalled
    /\ IdleA /\ IdleM /\ IdleMain

CallNoTransform ==
    /\ ~tres.done
    /\ tcall.transform = "NoTransform"
    /\ tres' = NoTransform(tcall.challenges, tcall.key)
    /\ UNCHANGED <<tcall, avars, mvars, mainvars>>

CallXorKeyTransform ==
    /\ ~tres.done
    /\ tcall.transform = "XorKeyTransform"
    /\ tres' = XorKeyTransform(tcall.challenges, tcall.key)
    /\ UNCHANGED <<tcall, avars, mvars, mainvars>>

CallDoubleXorTransform ==
    /\ ~tres.done
    /\ tcall.transform = "DoubleXorTransform"
    /\ tres' = DoubleXorTransform(tcall.challenges, tcall.key)
    /\ UNCHANGED <<tcall, avars, mvars, mainvars>>

CallTFFWithResetTransform ==
    /\ ~tres.done
    /\ tcall.transform = "TFFWithResetTransform"
    /\ tres' = TFFWithResetTransform(tcall.challenges, tcall.key)
    /\ UNCHANGED <<tcall, avars, mvars, mainvars>>

CallElipticCurveTransform ==
    /\ ~tres.done
    /\ tcall.transform = "ElipticCurveTransform"
    /\ tres' = ElipticCurveTransform(tcall.challenges, tcall.key)
    /\ UNCHANGED <<tcall, avars, mvars, mainvars>>

NextT ==
    \/ CallNoTransform
    \/ CallXorKeyTransform
    \/ CallDoubleXorTransform
    \/ CallTFFWithResetTransform
    \/ CallElipticCurveTransform

SpecT == InitT /\ [][NextT]_vars

-----------------------------------------------------------------------------
(* attacker.py: class Attacker.                                            *)

\* Attacker.__init__: n: int = 64, and n=64 in every Attacker of main
ChallengeLength == 64
\* the seeds of the random_inputs calls
FitSeed == 21
AccuracySeed == 84
EntropySeed == 168

\* random_inputs(n, N, seed): an array of N rows of n entries of {-1, 1}, a
\* deterministic function of its arguments. Entry (i, j) is drawn by the
\* generator that the state variable prng selects.
RandomEntry(g, n, seed, i, j) ==
    LET s0 == (seed * 97 + g * 53 + 1) % 1021
        e == (i - 1) * n + j
    IN IF ((((s0 + e) * (s0 + e) * 37 + e * 11) % 1021) \div 3) % 2 = 0
       THEN -1 ELSE 1

random_inputs(g, n, count, seed) ==
    [i \in 1..count |-> [j \in 1..n |-> RandomEntry(g, n, seed, i, j)]]

\* self.puf.r_eval(1, tf_challenges): one response per row, the response of
\* the PUF to that row
r_eval(challenges) ==
    [i \in 1..Len(challenges) |-> [puf_response_to |-> challenges[i]]]

ChallengeResponseSet(challenges, responses) ==
    [challenges |-> challenges, responses |-> responses]

NoCrps == ChallengeResponseSet(<<>>, <<>>)

\* self.model: None, or the model fitted on a challenge/response set
NoModel == [kind |-> "None", crps |-> NoCrps]
\* fit_attack passing the transformed challenges to the attack
attacker_crps_Transformed(challenges, tf_challenges, responses) ==
    ChallengeResponseSet(tf_challenges, responses)

\* attacker_crps = ChallengeResponseSet(challenges, responses)
attacker_crps(challenges, tf_challenges, responses) ==
    ChallengeResponseSet(challenges, responses)

\* new_crps = ChallengeResponseSet(new_challenges, new_responses)
new_crps(new_challenges, new_tf_challenges, new_responses) ==
    ChallengeResponseSet(new_challenges, new_responses)

\* fit_attack forgetting to store the fitted model
FittedModel_NotStored(crps) == NoModel

\* attack.fit(); self.model = attack.model
FittedModel(crps) == [kind |-> "MLP", crps |-> crps]

\* [[1 if bit == 1 else 1e-20 for bit in challenge] for challenge in challenges]
Bin01(challenges) ==
    [i \in 1..Len(challenges) |->
        [j \in 1..Len(challenges[i]) |->
            IF challenges[i][j] = 1 THEN "1" ELSE "1e-20"]]

RECURSIVE Size(_)
\* the number of entries of an array: len(a.flatten())
Size(a) == IF a = <<>> THEN 0 ELSE Len(Head(a)) + Size(Tail(a))

\* 0xfedcba0987654321
MainKey == IntKey(<<65244, 47625, 34661, 17185>>)
\* [0] * 64
ZeroKey == ListKey([i \in 1..ChallengeLength |-> 0])

\* the key main constructs the Attacker of each transform with;
\* ElipticCurveTransform is imported by main and given to no Attacker there
ConfigKey(t) ==
    CASE t = "NoTransform" -> NoneKey
      [] t = "XorKeyTransform" -> MainKey
      [] t = "DoubleXorTransform" -> MainKey
      [] t = "TFFWithResetTransform" -> ZeroKey
      [] OTHER -> NoneKey

MainTransforms ==
    <<"NoTransform", "XorKeyTransform", "DoubleXorTransform",
      "TFFWithResetTransform">>
Transforms ==
    {MainTransforms[i] : i \in 1..Len(MainTransforms)}
        \cup {"ElipticCurveTransform"}

\* what the last method call did
NoCall ==
    [op |-> "", before |-> "", raised |-> "", returned |-> FALSE,
     fitted_before |-> FALSE, key_before |-> NoneKey,
     challenges |-> <<>>, tf |-> <<>>, puf_evals |-> <<>>, crps |-> NoCrps]

CallRecord(op, raised, challenges, tf, puf_evals, crps) ==
    [op |-> op, before |-> last.op, raised |-> raised, returned |-> raised = "",
     fitted_before |-> model.kind # "None", key_before |-> key,
     challenges |-> challenges, tf |-> tf, puf_evals |-> puf_evals,
     crps |-> crps]

\* Attacker(transform, key, N, n=64, k=5)
Init ==
    /\ transform \in Transforms
    /\ key = ConfigKey(transform)
    /\ N \in 1..MaxN
    /\ prng \in 0..MaxPrng
    /\ model = NoModel
    /\ last = NoCall
    /\ everFit = FALSE
    /\ IdleT /\ IdleM /\ IdleMain

\* self._transform(challenges)
Transform(challenges) == Apply(transform, challenges, key)

FitAttack ==
    LET challenges == random_inputs(prng, ChallengeLength, N, FitSeed)
        t == Transform(challenges)
    IN
    /\ IF t.raised # ""
       THEN /\ last' = CallRecord("fit_attack", t.raised, challenges, <<>>,
                                  <<>>, NoCrps)
            /\ UNCHANGED <<key, model, everFit>>
       ELSE LET tf_challenges == t.challenges
                responses == r_eval(tf_challenges)
                crps == attacker_crps(challenges, tf_challenges, responses)
            IN
            /\ key' = t.key
            /\ model' = FittedModel(crps)
            /\ everFit' = TRUE
            /\ last' = CallRecord("fit_attack", "", challenges, tf_challenges,
                                  <<tf_challenges>>, crps)
    /\ UNCHANGED <<transform, N, prng, tvars, mvars, mainvars>>

AttackSimilarity ==
    /\ last' = CallRecord("attack_similarity",
                          IF model.kind = "None"
                          THEN "AssertionError: model not fitted" ELSE "",
                          <<>>, <<>>, <<>>, NoCrps)
    /\ UNCHANGED <<transform, key, N, model, prng, everFit,
                   tvars, mvars, mainvars>>

AttackAccuracy ==
    LET new_challenges == random_inputs(prng, ChallengeLength, N, AccuracySeed)
        t == Transform(new_challenges)
    IN
    /\ IF model.kind = "None"
       THEN /\ last' = CallRecord("attack_accuracy",
                                  "AssertionError: model not fitted",
                                  <<>>, <<>>, <<>>, NoCrps)
            /\ UNCHANGED key
       ELSE IF t.raised # ""
       THEN /\ last' = CallRecord("attack_accuracy", t.raised, new_challenges,
                                  <<>>, <<>>, NoCrps)
            /\ UNCHANGED key
       ELSE LET new_tf_challenges == t.challenges
                new_responses == r_eval(new_tf_challenges)
            IN
            /\ key' = t.key
            /\ last' = CallRecord("attack_accuracy", "", new_challenges,
                                  new_tf_challenges, <<new_tf_challenges>>,
                                  new_crps(new_challenges, new_tf_challenges,
                                           new_responses))
    /\ UNCHANGED <<transform, N, model, prng, everFit, tvars, mvars, mainvars>>

TransformEntropy ==
    LET new_challenges == random_inputs(prng, ChallengeLength, N, EntropySeed)
        new_challenges_bin == Bin01(new_challenges)
        t == Transform(new_challenges)
    IN
    /\ IF t.raised # ""
       THEN /\ last' = CallRecord("transform_entropy", t.raised, new_challenges,
                                  <<>>, <<>>, NoCrps)
            /\ UNCHANGED key
       ELSE LET new_tf_challenges == t.challenges
                new_tf_bin == Bin01(new_tf_challenges)
            IN
            /\ key' = t.key
            \* scipy's entropy(pk, qk) needs pk and qk of one shape
            /\ last' = CallRecord("transform_entropy",
                                  IF Size(new_challenges_bin) = Size(new_tf_bin)
                                  THEN "" ELSE "ValueError",
                                  new_challenges, new_tf_challenges, <<>>,
                                  NoCrps)
    /\ UNCHANGED <<transform, N, model, prng, everFit, tvars, mvars, mainvars>>

Next ==
    \/ FitAttack
    \/ AttackSimilarity
    \/ AttackAccuracy
    \/ TransformEntropy

Spec == Init /\ [][Next]_vars

-----------------------------------------------------------------------------
(* pypuf_local/metrics/common.py: similarity_data, accuracy, similarity.   *)
(* A numpy array is [shape, data], data nested as deep as shape is long;   *)
(* a float is the fraction [num, den], and nan is 0/0.                     *)

Array(shape, data) == [shape |-> shape, data |-> data]

RECURSIVE SumSeq(_)
SumSeq(q) == IF q = <<>> THEN 0 ELSE Head(q) + SumSeq(Tail(q))

Sign(x) == IF x > 0 THEN 1 ELSE IF x < 0 THEN -1 ELSE 0

\* np.sign(np.average(responses, axis=-1)) of an array of shape (N, m, r)
MajorityVote(a) ==
    IF Len(a.shape) = 3
    THEN Array(<<a.shape[1], a.shape[2]>>,
               [i \in 1..a.shape[1] |->
                   [b \in 1..a.shape[2] |-> Sign(SumSeq(a.data[i][b]))]])
    ELSE a

\* responses.reshape(-1, 1) of an array of shape (N,)
Reshape(a) ==
    IF Len(a.shape) = 1
    THEN Array(<<a.shape[1], 1>>, [i \in 1..a.shape[1] |-> <<a.data[i]>>])
    ELSE a

\* np.average(q): the mean of a sequence, nan (0/0) for an empty one
Average(q) == [num |-> SumSeq(q), den |-> Len(q)]

\* similarity_data counting the rows that differ
similarity_data_Differ(responses1, responses2) ==
    LET r1 == Reshape(MajorityVote(responses1))
        r2 == Reshape(MajorityVote(responses2))
    IN [b \in 1..r1.shape[2] |->
           Average([i \in 1..r1.shape[1] |->
                       IF r1.data[i][b] # r2.data[i][b] THEN 1 ELSE 0])]

\* np.average(np.absolute(responses1 == responses2), axis=0), for two arrays
\* that have one shape once the repetitions are voted and (N,) is reshaped
similarity_data(responses1, responses2) ==
    LET r1 == Reshape(MajorityVote(responses1))
        r2 == Reshape(MajorityVote(responses2))
    IN [b \in 1..r1.shape[2] |->
           Average([i \in 1..r1.shape[1] |->
                       IF r1.data[i][b] = r2.data[i][b] THEN 1 ELSE 0])]

\* A Simulation (pypuf_local.simulation): its challenge_length, the function
\* of the challenge it computes and whether its evaluation is noisy.
Simulation(n, f, noisy) == [challenge_length |-> n, f |-> f, noisy |-> noisy]
NoSimulation == Simulation(0, "", FALSE)
Functions == {"first", "last", "parity", "one"}

RECURSIVE Product(_)
Product(q) == IF q = <<>> THEN 1 ELSE Head(q) * Product(Tail(q))

\* the noise-free response of a simulation to one challenge
Response(instance, c) ==
    CASE instance.f = "first" -> c[1]
      [] instance.f = "last" -> c[Len(c)]
      [] instance.f = "parity" -> Product(c)
      [] OTHER -> 1

\* the arrays instance.eval(inputs) may return, of shape (N,): the noise-free
\* responses, or any responses at all when the evaluation is noisy
Eval(instance, inputs) ==
    {Array(<<Len(inputs)>>, d) :
        d \in IF instance.noisy THEN [1..Len(inputs) -> {-1, 1}]
              ELSE {[i \in 1..Len(inputs) |-> Response(instance, inputs[i])]}}

\* one call made by a metric: random_inputs, or eval of instance `who`
Event(call, who, inputs) == [call |-> call, who |-> who, inputs |-> inputs]

NoArray == Array(<<>>, <<>>)
MCall(f, r1, r2, i1, i2, challenges, seed, count) ==
    [f |-> f, responses1 |-> r1, responses2 |-> r2,
     instance1 |-> i1, instance2 |-> i2, challenges |-> challenges,
     seed |-> seed, N |-> count]
MRes(done, raised, value, log) ==
    [done |-> done, raised |-> raised, value |-> value, log |-> log]

\* the example of similarity_data's docstring
DocResponses1 == Array(<<4, 2>>, <<<<1, 1>>, <<1, 1>>, <<1, 1>>, <<1, 1>>>>)
DocResponses2 == Array(<<4, 2>>, <<<<1, 1>>, <<1, 1>>, <<1, 1>>, <<-1, 1>>>>)

\* all arrays of a shape over {-1, 1}
Arrays1(rows) == {Array(<<rows>>, d) : d \in [1..rows -> {-1, 1}]}
Arrays2(rows, bits) ==
    {Array(<<rows, bits>>, d) : d \in [1..rows -> [1..bits -> {-1, 1}]]}
Arrays3(rows, reps) ==
    {Array(<<rows, 1, reps>>, d) :
        d \in [1..rows -> [1..1 -> [1..reps -> {-1, 1}]]]}

Simulations ==
    {Simulation(n, f, noisy) :
        n \in 1..MaxSimLen, f \in Functions, noisy \in BOOLEAN}

SimilarityDataCalls ==
    \/ \E rows \in 0..MaxRespRows, bits \in 1..MaxRespBits :
        \E r1 \in Arrays2(rows, bits), r2 \in Arrays2(rows, bits) :
            mcall = MCall("similarity_data", r1, r2, NoSimulation,
                          NoSimulation, <<>>, 0, 0)
    \/ \E rows \in 0..MaxRespRows, reps \in 1..MaxReps :
        \E r1 \in Arrays3(rows, reps) \cup Arrays1(rows),
           r2 \in Arrays2(rows, 1) \cup Arrays1(rows) :
            mcall = MCall("similarity_data", r1, r2, NoSimulation,
                          NoSimulation, <<>>, 0, 0)
    \/ mcall = MCall("similarity_data", DocResponses1, DocResponses2,
                     NoSimulation, NoSimulation, <<>>, 0, 0)

AccuracyCalls ==
    \E simulation \in Simulations, rows \in 0..MaxRespRows, g \in 0..MaxPrng :
        \E responses \in Arrays1(rows) \cup Arrays2(rows, 1) :
            mcall = MCall("accuracy", NoArray, responses, simulation,
                          NoSimulation,
                          random_inputs(g, simulation.challenge_length, rows,
                                        AccuracySeed),
                          0, 0)

SimilarityCalls ==
    \E instance1 \in Simulations, instance2 \in Simulations,
       rows \in 0..MaxRespRows :
        mcall = MCall("similarity", NoArray, NoArray, instance1, instance2,
                      <<>>, FitSeed, rows)

InitM ==
    /\ (SimilarityDataCalls \/ AccuracyCalls \/ SimilarityCalls)
    /\ mres = MRes(FALSE, "", <<>>, <<>>)
    /\ prng \in 0..MaxPrng
    /\ transform = "None" /\ key = NoneKey /\ N = 0
    /\ model = "None" /\ last = "None" /\ everFit = FALSE
    /\ IdleT /\ IdleMain

SimilarityData ==
    /\ ~mres.done
    /\ mcall.f = "similarity_data"
    /\ mres' = MRes(TRUE, "",
                    similarity_data(mcall.responses1, mcall.responses2), <<>>)
    /\ UNCHANGED <<mcall, tvars, avars, mainvars>>

Accuracy ==
    /\ ~mres.done
    /\ mcall.f = "accuracy"
    /\ \E sim_responses \in Eval(mcall.instance1, mcall.challenges) :
        mres' = MRes(TRUE, "",
                     similarity_data(sim_responses, mcall.responses2),
                     <<Event("eval", 1, mcall.challenges)>>)
    /\ UNCHANGED <<mcall, tvars, avars, mainvars>>

\* similarity evaluating the second instance on inputs of its own
Similarity_OwnInputs ==
    /\ ~mres.done
    /\ mcall.f = "similarity"
    /\ IF mcall.instance1.challenge_length # mcall.instance2.challenge_length
       THEN mres' = MRes(TRUE, "ValueError", <<>>, <<>>)
       ELSE LET inputs == random_inputs(prng, mcall.instance1.challenge_length,
                                        mcall.N, mcall.seed)
                inputs2 == random_inputs(prng, mcall.instance2.challenge_length,
                                         mcall.N, mcall.seed + 1)
            IN \E r1 \in Eval(mcall.instance1, inputs),
                  r2 \in Eval(mcall.instance2, inputs2) :
                mres' = MRes(TRUE, "", similarity_data(r1, r2),
                             <<Event("random_inputs", 0, inputs),
                               Event("eval", 1, inputs),
                               Event("eval", 2, inputs2)>>)
    /\ UNCHANGED <<mcall, tvars, avars, mainvars>>

Similarity ==
    /\ ~mres.done
    /\ mcall.f = "similarity"
    /\ IF mcall.instance1.challenge_length # mcall.instance2.challenge_length
       THEN mres' = MRes(TRUE, "ValueError", <<>>, <<>>)
       ELSE LET inputs == random_inputs(prng, mcall.instance1.challenge_length,
                                        mcall.N, mcall.seed)
            IN \E r1 \in Eval(mcall.instance1, inputs),
                  r2 \in Eval(mcall.instance2, inputs) :
                mres' = MRes(TRUE, "", similarity_data(r1, r2),
                             <<Event("random_inputs", 0, inputs),
                               Event("eval", 1, inputs),
                               Event("eval", 2, inputs)>>)
    /\ UNCHANGED <<mcall, tvars, avars, mainvars>>

NextM ==
    \/ SimilarityData
    \/ Accuracy
    \/ Similarity

SpecM == InitM /\ [][NextM]_vars

-----------------------------------------------------------------------------
(* __main__.py: main.                                                      *)
(* pc is [at, loop]: the statement main is at and which of its four loops  *)
(* (or entropy calls) it is in. An attacker of main is held as             *)
(* [transform, N, fitted]; an accuracy as the [transform, N] it measures.  *)

CRPNUMS == <<100, 1000, 10000, 50000, 75000, 100000, 250000, 500000>>

At(at, loop) == [at |-> at, loop |-> loop]
NoAttacker == [transform |-> "", N |-> 0, fitted |-> FALSE]
Made(call, a) == [call |-> call, transform |-> a.transform, N |-> a.N]
Plain(call) == [call |-> call, transform |-> "", N |-> 0]

\* whether self._transform raises on the challenges of this attacker: it
\* depends on the key and the challenge length, not on the rows
TransformRaises(t) ==
    Apply(t, random_inputs(0, ChallengeLength, 1, FitSeed), ConfigKey(t)).raised

InitMain ==
    /\ pc = At("list", 1)
    /\ idx = 0
    /\ accs = [t \in 1..Len(MainTransforms) |-> <<>>]
    /\ attackers = [t \in 1..Len(MainTransforms) |-> NoAttacker]
    /\ trace = <<>>
    /\ IdleA /\ IdleT /\ IdleM

\* notf_accuracies = [] (xor_accuracies, ...) and the loop's first test
NewList ==
    /\ pc.at = "list"
    /\ accs' = [accs EXCEPT ![pc.loop] = <<>>]
    /\ idx' = 1
    /\ pc' = At("construct", pc.loop)
    /\ UNCHANGED <<attackers, trace, tvars, avars, mvars>>

\* notf_attacker = Attacker(NoTransform, N=N, n=64, k=5) (and the like)
MainAttacker ==
    /\ pc.at = "construct"
    /\ LET a == [transform |-> MainTransforms[pc.loop], N |-> CRPNUMS[idx],
                 fitted |-> FALSE]
       IN /\ attackers' = [attackers EXCEPT ![pc.loop] = a]
          /\ trace' = Append(trace, Made("Attacker", a))
    /\ pc' = At("fit", pc.loop)
    /\ UNCHANGED <<idx, accs, tvars, avars, mvars>>

\* main calling attack_accuracy without fit_attack before it
MainFitAttack_Skipped ==
    /\ pc.at = "fit"
    /\ pc' = At("accuracy", pc.loop)
    /\ UNCHANGED <<attackers, trace, idx, accs, tvars, avars, mvars>>

\* notf_attacker.fit_attack()
MainFitAttack ==
    /\ pc.at = "fit"
    /\ trace' = Append(trace, Made("fit_attack", attackers[pc.loop]))
    /\ IF TransformRaises(attackers[pc.loop].transform) # ""
       THEN /\ pc' = At("raised", pc.loop)
            /\ UNCHANGED attackers
       ELSE /\ attackers' = [attackers EXCEPT ![pc.loop].fitted = TRUE]
            /\ pc' = At("accuracy", pc.loop)
    /\ UNCHANGED <<idx, accs, tvars, avars, mvars>>

\* notf_accuracies.append(notf_attacker.attack_accuracy()), the next N of
\* the loop and, after the last, the statement after the loop
MainAttackAccuracy ==
    /\ pc.at = "accuracy"
    /\ trace' = Append(trace, Made("attack_accuracy", attackers[pc.loop]))
    /\ IF ~attackers[pc.loop].fitted
            \/ TransformRaises(attackers[pc.loop].transform) # ""
       THEN /\ pc' = At("raised", pc.loop)
            /\ UNCHANGED <<idx, accs>>
       ELSE /\ accs' = [accs EXCEPT ![pc.loop] =
                            Append(@, [transform |-> attackers[pc.loop].transform,
                                       N |-> attackers[pc.loop].N])]
            /\ IF idx < Len(CRPNUMS)
               THEN /\ idx' = idx + 1
                    /\ pc' = At("construct", pc.loop)
               ELSE /\ idx' = idx
                    /\ pc' = IF pc.loop < Len(MainTransforms)
                             THEN At("list", pc.loop + 1)
                             ELSE At("plot_accuracies", 0)
    /\ UNCHANGED <<attackers, tvars, avars, mvars>>

PlotAccuracies ==
    /\ pc.at = "plot_accuracies"
    /\ trace' = Append(trace, Plain("plot_accuracies"))
    /\ pc' = At("entropy", 1)
    /\ UNCHANGED <<idx, accs, attackers, tvars, avars, mvars>>

\* notf_entropy = notf_attacker.transform_entropy() (and the like)
MainTransformEntropy ==
    /\ pc.at = "entropy"
    /\ trace' = Append(trace, Made("transform_entropy", attackers[pc.loop]))
    /\ pc' = IF TransformRaises(attackers[pc.loop].transform) # ""
             THEN At("raised", pc.loop)
             ELSE IF pc.loop < Len(MainTransforms)
             THEN At("entropy", pc.loop + 1)
             ELSE At("plot_entropies", 0)
    /\ UNCHANGED <<idx, accs, attackers, tvars, avars, mvars>>

PlotEntropies ==
    /\ pc.at = "plot_entropies"
    /\ trace' = Append(trace, Plain("plot_entropies"))
    /\ pc' = At("print", 0)
    /\ UNCHANGED <<idx, accs, attackers, tvars, avars, mvars>>

\* print("TODO: ELIPTIC CURVE ATTACKS")
PrintTodo ==
    /\ pc.at = "print"
    /\ trace' = Append(trace, Plain("print"))
    /\ pc' = At("done", 0)
    /\ UNCHANGED <<idx, accs, attackers, tvars, avars, mvars>>

NextMain ==
    \/ NewList
    \/ MainAttacker
    \/ MainFitAttack
    \/ MainAttackAccuracy
    \/ PlotAccuracies
    \/ MainTransformEntropy
    \/ PlotEntropies
    \/ PrintTodo

SpecMain == InitMain /\ [][NextMain]_vars

-----------------------------------------------------------------------------
(* The transforms' contracts, on the calls of SpecT.                       *)

RECURSIVE BitLen(_)
\* the number of binary digits of v (1 for 0)
BitLen(v) == IF v < 2 THEN 1 ELSE 1 + BitLen(v \div 2)

\* digit i (1 = most significant) of v written with w binary digits, as -1 / 1
KeyBit(v, w, i) == IF (v \div Pow2(w - i)) % 2 = 0 THEN -1 ELSE 1

Xor(a, b) == IF a # b THEN 1 ELSE -1

CalledT(t) == tres.done /\ tcall.transform = t
ReturnedT(t) == CalledT(t) /\ tres.raised = ""
KeyValue == tcall.key.limbs[1]
RowLen == Len(tcall.challenges[1])

\* C2: for rows of length n and an int key with 0 <= key < 2^n,
\* XorKeyTransform returns, for every row, the row of length n whose entry i is
\* 1 exactly when the challenge's entry i differs from digit i of the key
\* written with n binary digits, and -1 otherwise; the key comes back unchanged.
C2_XorWithPaddedKey ==
    (CalledT("XorKeyTransform") /\ tcall.challenges # <<>>
        /\ KeyValue < Pow2(RowLen))
    => /\ tres.raised = ""
       /\ tres.key = tcall.key
       /\ Len(tres.challenges) = Len(tcall.challenges)
       /\ \A j \in 1..Len(tcall.challenges) :
            /\ Len(tres.challenges[j]) = RowLen
            /\ \A i \in 1..RowLen :
                 tres.challenges[j][i] =
                    Xor(tcall.challenges[j][i], KeyBit(KeyValue, RowLen, i))

\* C3: whenever DoubleXorTransform returns, output entry i of every row is 1
\* exactly when the challenge's entry i differs from
\* upper[i mod h] XOR lower[i mod h], h half the key's bit length; the output
\* has the challenges' shape and the key comes back unchanged.
C3_DoubleXorFolds ==
    ReturnedT("DoubleXorTransform")
    => LET w == BitLen(KeyValue)
           h == w \div 2
           upper(i) == KeyBit(KeyValue, w, ((i - 1) % h) + 1)
           lower(i) == KeyBit(KeyValue, w, h + ((i - 1) % h) + 1)
       IN
       /\ tres.key = tcall.key
       /\ Len(tres.challenges) = Len(tcall.challenges)
       /\ \A j \in 1..Len(tcall.challenges) :
            /\ Len(tres.challenges[j]) = Len(tcall.challenges[j])
            /\ \A i \in 1..Len(tcall.challenges[j]) :
                 tres.challenges[j][i] =
                    Xor(tcall.challenges[j][i], Xor(upper(i), lower(i)))

\* a returned DoubleXorTransform call on rows of length 4 (h = 2) whose two
\* key halves differ, so that the output differs from the challenges
C3_Witness ==
    /\ ReturnedT("DoubleXorTransform")
    /\ RowLen = 4
    /\ tres.challenges # tcall.challenges

\* the key state after it consumed challenge c
AfterChallenge(bits, c) ==
    [i \in 1..Len(bits) |-> IF c[i] = -1 THEN bits[i] ELSE flip_bit(bits[i])]

\* C4: TFFWithResetTransform on m challenges returns m rows; row 0 is the key
\* and row j+1 is row j with the bits kept where c_j is -1 and flipped
\* elsewhere; the key returned is the state after the last challenge.
C4_TffRowsAreKeyStates ==
    ReturnedT("TFFWithResetTransform")
    => LET m == Len(tcall.challenges) IN
       /\ Len(tres.challenges) = m
       /\ m >= 1 => tres.challenges[1] = tcall.key.bits
       /\ \A j \in 1..(m - 1) :
            tres.challenges[j + 1] =
                AfterChallenge(tres.challenges[j], tcall.challenges[j])
       /\ tres.key.kind = "list"
       /\ tres.key.bits =
            IF m = 0 THEN tcall.key.bits
            ELSE AfterChallenge(tres.challenges[m], tcall.challenges[m])

\* a returned call on three challenges whose rows are not all the same
C4_Witness ==
    /\ ReturnedT("TFFWithResetTransform")
    /\ Len(tcall.challenges) = 3
    /\ tres.challenges[2] # tres.challenges[1]
    /\ tres.challenges[3] # tres.challenges[2]
    /\ tres.key.bits # tres.challenges[3]

-----------------------------------------------------------------------------
(* The Attacker's contracts, on the behaviours of Spec.                    *)

NotFitted == "AssertionError: model not fitted"

\* the seed of the random_inputs call of a method
SeedOf(op) ==
    CASE op = "fit_attack" -> FitSeed
      [] op = "attack_accuracy" -> AccuracySeed
      [] OTHER -> EntropySeed

C1_State ==
    /\ everFit <=> model.kind # "None"
    /\ (last.op \in {"attack_similarity", "attack_accuracy"}
            /\ ~last.fitted_before)
        => (last.raised = NotFitted /\ ~last.returned)
    /\ (last.op # "" /\ last.fitted_before) => last.raised # NotFitted
    /\ last.op = "transform_entropy" => last.raised # NotFitted

\* C1: model is None exactly until a fit_attack has completed;
\* attack_similarity and attack_accuracy called while it is None fail with
\* 'model not fitted' and return nothing; transform_entropy never fails so;
\* and no call makes a fitted model None again.
C1_ModelFittedOnceAndForAll ==
    /\ []C1_State
    /\ [][model.kind # "None" => model'.kind # "None"]_vars

\* transform_entropy has returned on an Attacker that was never fitted, after
\* attack_accuracy failed on it
C1_Witness ==
    /\ last.op = "transform_entropy" /\ last.returned
    /\ last.before = "attack_accuracy"
    /\ ~everFit

\* C5: the set given to the attack (fit_attack) or to the accuracy metric
\* (attack_accuracy) pairs row i of the untransformed challenges with the
\* PUF's response to row i of the transformed challenges; the PUF is
\* evaluated on the transformed challenges only; both have N rows.
C5_CrpsPairUntransformedWithTransformed ==
    (last.op \in {"fit_attack", "attack_accuracy"} /\ last.returned)
    => LET untransformed ==
               random_inputs(prng, ChallengeLength, N, SeedOf(last.op))
           transformed ==
               Apply(transform, untransformed, last.key_before).challenges
       IN
       /\ last.crps.challenges = untransformed
       /\ last.puf_evals = <<transformed>>
       /\ Len(last.crps.challenges) = N
       /\ Len(last.crps.responses) = N
       /\ \A i \in 1..N :
            last.crps.responses[i] = [puf_response_to |-> transformed[i]]
       /\ last.op = "fit_attack" => model.crps = last.crps

\* fit_attack has returned under a transform that changed the challenges
C5_Witness ==
    /\ last.op = "fit_attack" /\ last.returned
    /\ transform = "DoubleXorTransform"
    /\ last.tf # last.challenges
    /\ N >= 2

IsBinary(challenges) ==
    \A i \in 1..Len(challenges) :
        \A j \in 1..Len(challenges[i]) : challenges[i][j] \in {-1, 1}

TransformingCall ==
    /\ last.op \in {"fit_attack", "attack_accuracy", "transform_entropy"}
    /\ last.returned
    /\ transform # "ElipticCurveTransform"

\* C8: every entry of every transformed challenge row produced inside
\* fit_attack, attack_accuracy and transform_entropy is -1 or 1, for each of
\* the four transform/key configurations of main.
C8_TransformedChallengesAreBinary ==
    TransformingCall => IsBinary(last.tf)

\* what the method would have transformed the challenges to on an Attacker
\* that no method was called on before
FreshTf(op) ==
    Apply(transform, random_inputs(prng, ChallengeLength, N, SeedOf(op)),
          ConfigKey(transform)).challenges

\* C9: for each of the four transforms, two consecutive attack_accuracy
\* calls evaluate the PUF on identical transformed challenges, and the
\* transformed challenges of a call do not depend on the calls made earlier.
C9_Repeatable ==
    /\ [](TransformingCall => last.tf = FreshTf(last.op))
    /\ [][(last.op = "attack_accuracy" /\ last.returned
            /\ last'.op = "attack_accuracy" /\ last'.returned)
          => last'.tf = last.tf]_vars

\* C9 as amended: the same for the three transforms that hand the key back
\* unchanged (NoTransform, XorKeyTransform, DoubleXorTransform).
C9_RepeatableUnlessKeyAdvances ==
    /\ []((TransformingCall /\ transform # "TFFWithResetTransform")
            => last.tf = FreshTf(last.op))
    /\ [][(last.op = "attack_accuracy" /\ last.returned
            /\ last'.op = "attack_accuracy" /\ last'.returned
            /\ transform # "TFFWithResetTransform")
          => last'.tf = last.tf]_vars

\* a second attack_accuracy in a row has returned under XorKeyTransform
C9_Witness ==
    /\ last.op = "attack_accuracy" /\ last.returned
    /\ last.before = "attack_accuracy"
    /\ transform = "XorKeyTransform"
    /\ last.tf # last.challenges

-----------------------------------------------------------------------------
(* The metrics' contracts, on the calls of SpecM.                          *)

IsOne(q) == q.den # 0 /\ q.num = q.den
IsZero(q) == q.den # 0 /\ q.num = 0
\* the fraction q is a / b
IsFraction(q, a, b) == q.den # 0 /\ q.num * b = a * q.den

CalledM(f) == mres.done /\ mcall.f = f

\* C6: for two response arrays of shape (N, m), N >= 1, similarity_data
\* returns for each response bit the number of rows on which the arrays agree,
\* divided by N; the result is the same with the arguments swapped, is 1 for a
\* bit exactly when all rows agree on it and 0 exactly when none does; the
\* docstring's example gives [0.75, 1].
C6_SimilarityDataIsAgreementRate ==
    (CalledM("similarity_data") /\ Len(mcall.responses1.shape) = 2
        /\ Len(mcall.responses2.shape) = 2 /\ mcall.responses1.shape[1] >= 1)
    => LET rows == mcall.responses1.shape[1]
           bits == mcall.responses1.shape[2]
           agree(b) == {i \in 1..rows : mcall.responses1.data[i][b]
                                            = mcall.responses2.data[i][b]}
       IN
       /\ Len(mres.value) = bits
       /\ \A b \in 1..bits :
            /\ mres.value[b] = [num |-> Cardinality(agree(b)), den |-> rows]
            /\ IsOne(mres.value[b]) <=> agree(b) = 1..rows
            /\ IsZero(mres.value[b]) <=> agree(b) = {}
       /\ mres.value = similarity_data(mcall.responses2, mcall.responses1)
       /\ (mcall.responses1 = DocResponses1 /\ mcall.responses2 = DocResponses2)
            => /\ IsFraction(mres.value[1], 75, 100)
               /\ IsOne(mres.value[2])

\* similarity_data has returned on two arrays of two rows and two bits that
\* agree on all rows in one bit and on one row in the other
C6_Witness ==
    /\ CalledM("similarity_data")
    /\ mcall.responses1.shape = <<2, 2>>
    /\ mcall.responses2.shape = <<2, 2>>
    /\ IsOne(mres.value[1])
    /\ IsFraction(mres.value[2], 1, 2)

\* the two simulations compute one function of the challenge
SameFunction(instance1, instance2) ==
    /\ instance1.challenge_length = instance2.challenge_length
    /\ \A c \in Rows(instance1.challenge_length) :
        Response(instance1, c) = Response(instance2, c)

SimilarityChecksLengthFirst ==
    /\ mcall.instance1.challenge_length # mcall.instance2.challenge_length
        => /\ mres.raised = "ValueError"
           /\ mres.log = <<>>
    /\ mcall.instance1.challenge_length = mcall.instance2.challenge_length
        => /\ mres.raised = ""
           /\ Len(mres.log) = 3
           /\ mres.log[1].call = "random_inputs"
           /\ Len(mres.log[1].inputs) = mcall.N
           /\ mres.log[2] = Event("eval", 1, mres.log[1].inputs)
           /\ mres.log[3] = Event("eval", 2, mres.log[1].inputs)

\* C7: similarity raises ValueError when the challenge lengths differ, before
\* it generates a challenge or evaluates an instance; otherwise it evaluates
\* both instances on the same N challenges, and the similarity of an instance
\* with itself, or with a deterministic instance computing the same function,
\* is 1 for every response bit (N >= 1: over no challenge the rate is 0/0).
C7_SelfSimilarityIsOne ==
    CalledM("similarity")
    => /\ SimilarityChecksLengthFirst
       /\ (mcall.N >= 1
              /\ (mcall.instance1 = mcall.instance2
                    \/ (~mcall.instance2.noisy
                          /\ SameFunction(mcall.instance1, mcall.instance2))))
            => \A b \in 1..Len(mres.value) : IsOne(mres.value[b])

\* C7 as amended: ... and, for N >= 1, the similarity of a noise-free
\* instance with itself, or with a noise-free instance computing the same
\* function, is 1 for every response bit.
C7_DeterministicSelfSimilarityIsOne ==
    CalledM("similarity")
    => /\ SimilarityChecksLengthFirst
       /\ (mcall.N >= 1 /\ ~mcall.instance1.noisy /\ ~mcall.instance2.noisy
              /\ SameFunction(mcall.instance1, mcall.instance2))
            => /\ Len(mres.value) = 1
               /\ IsOne(mres.value[1])

\* similarity has returned 1 for a noise-free simulation of the parity of
\* challenges of length 2 and itself, on two different challenges
C7_Witness ==
    /\ CalledM("similarity")
    /\ mres.raised = ""
    /\ mcall.N = 2
    /\ mcall.instance1.challenge_length = 2
    /\ ~mcall.instance1.noisy /\ ~mcall.instance2.noisy
    /\ mcall.instance1 = mcall.instance2
    /\ mcall.instance1.f = "parity"
    /\ IsOne(mres.value[1])
    /\ mres.log[2].inputs[1] # mres.log[2].inputs[2]

-----------------------------------------------------------------------------
(* main's contract, on the behaviour of SpecMain.                          *)

\* the positions of the trace that hold a call of the kind
Positions(call) == {p \in 1..Len(trace) : trace[p].call = call}
\* how many Attackers were constructed up to position p
Constructed(p) == Cardinality({q \in Positions("Attacker") : q <= p})

\* the accuracies of one transform, one per element of CRPNUMS, in its order
AllAccuracies(t) ==
    [i \in 1..Len(CRPNUMS) |-> [transform |-> MainTransforms[t], N |-> CRPNUMS[i]]]

\* C10: for each transform in the order of MainTransforms and each N of
\* CRPNUMS in order, main constructs an Attacker, fit_attack completes on it
\* and only then is attack_accuracy called on it; 'model not fitted' never
\* fires; each accuracy list ends with one entry per element of CRPNUMS, in
\* order; transform_entropy is called only on the last Attacker of each
\* transform, after the accuracies are plotted; ElipticCurveTransform is
\* never called.
C10_MainFitsBeforeMeasuring ==
    /\ pc.at # "raised"
    /\ \A p \in Positions("Attacker") :
        LET k == Constructed(p) - 1 IN
        /\ trace[p].transform = MainTransforms[(k \div Len(CRPNUMS)) + 1]
        /\ trace[p].N = CRPNUMS[(k % Len(CRPNUMS)) + 1]
    /\ \A p \in Positions("attack_accuracy") :
        /\ p >= 3
        /\ trace[p - 1] = [trace[p] EXCEPT !.call = "fit_attack"]
        /\ trace[p - 2] = [trace[p] EXCEPT !.call = "Attacker"]
    /\ \A p \in Positions("fit_attack") :
        trace[p - 1] = [trace[p] EXCEPT !.call = "Attacker"]
    /\ \A t \in 1..Len(MainTransforms) :
        /\ Len(accs[t]) <= Len(CRPNUMS)
        /\ accs[t] = SubSeq(AllAccuracies(t), 1, Len(accs[t]))
        /\ pc.at \in {"plot_accuracies", "entropy", "plot_entropies", "print",
                      "done"}
            => accs[t] = AllAccuracies(t)
    /\ \A p \in Positions("transform_entropy") :
        /\ trace[p].N = CRPNUMS[Len(CRPNUMS)]
        /\ \E q \in Positions("plot_accuracies") : q < p
        /\ \A q \in Positions("Attacker") : q < p
    /\ pc.at = "done"
        => /\ Cardinality(Positions("transform_entropy")) = Len(MainTransforms)
           /\ Cardinality(Positions("attack_accuracy"))
                = Len(MainTransforms) * Len(CRPNUMS)
    /\ \A p \in 1..Len(trace) : trace[p].transform # "ElipticCurveTransform"

\* main has ended, with all accuracies and the four entropies taken
C10_Witness ==
    /\ pc.at = "done"
    /\ \A t \in 1..Len(MainTransforms) : accs[t] = AllAccuracies(t)
    /\ Cardinality(Positions("transform_entropy")) = Len(MainTransforms)

====
